---- MODULE Spec2Model ----
(***************************************************************************)
(* State-machine model of the Redis-backed task queue of                   *)
(* src/src/core/queue.py (class AsyncQueue and its worker loop), and, in   *)
(* its last section, of RateLimitMiddleware of src/src/core/middleware.py. *)
(*                                                                         *)
(* One step of the model is one Redis command (one await on self.redis)    *)
(* or one processor invocation, so every interleaving of workers,          *)
(* producers and the clock between two store commands is explored.         *)
(*                                                                         *)
(* Conventions.  A Redis list is a sequence whose index 1 is the left      *)
(* (head) end.  A Redis set is a set of members.  The scheduled sorted set *)
(* is a set of members: the score of a member is always the scheduled_at   *)
(* stored inside the member (queue.py:88,94), so ZADD of an equal member   *)
(* neither adds an entry nor changes a score.  A serialized task           *)
(* (json.dumps of the dict) is a record without the delay_seconds field;   *)
(* the in-memory QueueTask is a record with it.  The payload is opaque to  *)
(* the queue and is left out.  Task ids are the numbers 1, 2, ... in the   *)
(* order of the producers' enqueue calls.  Times are seconds; the clock   *)
(* moves only in Tick, to the next time at which a scheduled entry falls   *)
(* due, and the wait of a BRPOP that times out takes no model time.        *)
(*                                                                         *)
(* The variable profile fixes, for a whole run, what the producers enqueue *)
(* and which worker loops are started; the specifications differ in it     *)
(* only.  The variables marked history record what has happened and are    *)
(* read by no action guard except the producers' of a Batch run, which     *)
(* stop enqueuing once the first dequeue has begun.                        *)
(***************************************************************************)
EXTENDS Integers, Sequences, FiniteSets, TLC

VARIABLES
    now,          \* datetime.utcnow(), in seconds
    ready,        \* ready[q][p]: the list  queue:{q}:{p}
    scheduled,    \* scheduled[q]: the sorted set  scheduled:{q}
    processing,   \* processing[q]: the set  processing:{q}
    failed,       \* failed[q]: the list  failed:{q}
    running,      \* AsyncQueue.running
    pc,           \* pc[w]: where worker coroutine w stands
    wqueue,       \* wqueue[w]: queue_name argument of start_worker
    ready_tasks,  \* ready_tasks[w]: what is left of the sweep's ready_tasks
    prio,         \* prio[w]: index of the priority the dequeue loop is at
    task_data,    \* task_data[w]: the member brpop returned
    task,         \* task[w]: the QueueTask the worker holds
    error,        \* error[w]: the error message handed to fail_task
    profile,      \* what the producers of this run enqueue, and who works
    next_id,      \* history: number of enqueue calls so far, plus one
    attempts,     \* history: attempts[id] = number of _process_task calls
                  \*          for task id
    outcome,      \* history: outcome[id] = what the last of them ended with
    completed,    \* history: ids whose complete_task removed them
    batch,        \* history: "filling" | "draining" | "mixed"
    last_pop,     \* history: priority of the last brpop result while draining
    swept,        \* history: swept[m] = pushes of member m by the sweep
    delays,       \* history: delays[id] = the delay_seconds fail_task has set
    call_start,   \* history: call_start[w] = the clock when the dequeue call
                  \*          that w is in began (0 outside dequeue)
    halted,       \* history: the worker loops that were running when
                  \*          stop_worker was called
    recompleted,  \* history: ids whose complete_task found nothing to remove
    accepted,     \* history: ids of the tasks whose enqueue by a producer
                  \*          returned True
    raised,       \* history: raised[w] = a store command has raised in the
                  \*          dequeue call that w is in
    fail_result,  \* history: fail_result[w] = what the fail_task call that w
                  \*          has just left returned (_process_task drops
                  \*          it; FALSE from the next loop test on)
    rate_limit,   \* rate_limit[ip]: the value of the key rate_limit:{ip}
                  \*          (0: there is no such key)
    ttl,          \* ttl[ip]: seconds until that key expires (NoExpiry: the
                  \*          key has no expiry; 0: there is no such key)
    rpc,          \* rpc[r]: where request r stands in dispatch
    client_ip,    \* client_ip[r]: the client of request r
    current_calls,\* current_calls[r]: what GET returned to request r
    response      \* history: response[r] = status of the last response to
                  \*          a request in slot r (0: none yet)

vars == <<now, ready, scheduled, processing, failed, running, pc, wqueue,
          ready_tasks, prio, task_data, task, error, profile, next_id,
          attempts, outcome, completed, batch, last_pop, swept, delays,
          call_start, halted, recompleted, accepted, raised, fail_result,
          rate_limit, ttl, rpc, client_ip, current_calls, response>>

(* the variables of RateLimitMiddleware, and those of the queue *)
rate_vars == <<rate_limit, ttl, rpc, client_ip, current_calls, response>>

queue_vars ==
    <<now, ready, scheduled, processing, failed, running, pc, wqueue,
      ready_tasks, prio, task_data, task, error, profile, next_id, attempts,
      outcome, completed, batch, last_pop, swept, delays, call_start, halted,
      recompleted, accepted, raised, fail_result>>

----------------------------------------------------------------------------
(* Bounds of the model *)

MaxTasks == 2

MaxTasksWorkers == 1

MaxRetries == 1

MaxRetriesDeep == 7

MaxBatch == 3

(* Program constants *)

BackoffBase == 60

BackoffCap == 3600

DelaySeconds == 10

Priorities == {"critical", "high", "normal", "low"}

PRIORITY_WEIGHTS == [critical |-> 100, high |-> 75, normal |-> 50, low |-> 25]

PriorityOrderReversed == <<"low", "normal", "high", "critical">>

PriorityOrder == <<"critical", "high", "normal", "low">>

QueueNames == {"webhooks", "notifications"}

TaskTypes == {"webhook.process", "whatsapp.send_message"}

task_processors == {"webhook.process", "ai.generate_response"}

Workers == {"w1", "w2"}

Requests == {"r1", "r2"}

Clients == {"10.0.0.1", "10.0.0.2"}

NoTask == [id |-> 0]

Min(a, b) == IF a < b THEN a ELSE b

----------------------------------------------------------------------------
(* Task records and their serialization *)

QueueTask(id, q, tt, p, mr, d) ==
    [id |-> id, queue_name |-> q, task_type |-> tt, priority |-> p,
     max_retries |-> mr, retry_count |-> 0, delay_seconds |-> d,
     created_at |-> now, scheduled_at |-> now + d]

TaskData(t) ==
    [id |-> t.id, queue_name |-> t.queue_name, task_type |-> t.task_type,
     priority |-> t.priority, max_retries |-> t.max_retries,
     retry_count |-> t.retry_count, created_at |-> t.created_at,
     scheduled_at |-> t.scheduled_at]

TaskToDictWithDelay(t) ==
    [id |-> t.id, queue_name |-> t.queue_name, task_type |-> t.task_type,
     priority |-> t.priority, max_retries |-> t.max_retries,
     retry_count |-> t.retry_count, delay_seconds |-> t.delay_seconds,
     created_at |-> t.created_at, scheduled_at |-> t.scheduled_at]

TaskToDict(t) ==
    [id |-> t.id, queue_name |-> t.queue_name, task_type |-> t.task_type,
     priority |-> t.priority, max_retries |-> t.max_retries,
     retry_count |-> t.retry_count, created_at |-> t.created_at,
     scheduled_at |-> t.scheduled_at]

DictToTask(d) ==
    [id |-> d.id, queue_name |-> d.queue_name, task_type |-> d.task_type,
     priority |-> d.priority, max_retries |-> d.max_retries,
     retry_count |-> d.retry_count, delay_seconds |-> 0,
     created_at |-> d.created_at, scheduled_at |-> d.scheduled_at]

FailedData(t, msg) ==
    [id |-> t.id, queue_name |-> t.queue_name, task_type |-> t.task_type,
     priority |-> t.priority, max_retries |-> t.max_retries,
     retry_count |-> t.retry_count, created_at |-> t.created_at,
     scheduled_at |-> t.scheduled_at, error_message |-> msg,
     failed_at |-> now]

BackoffUncapped(retry_count) == (2 ^ retry_count) * BackoffBase

Backoff(retry_count) == Min((2 ^ retry_count) * BackoffBase, BackoffCap)

RetryTaskStale(t) ==
    [t EXCEPT !.retry_count = t.retry_count + 1,
              !.delay_seconds = Backoff(t.retry_count),
              !.scheduled_at = now + Backoff(t.retry_count)]

RetryTask(t) ==
    [t EXCEPT !.retry_count = t.retry_count + 1,
              !.delay_seconds = Backoff(t.retry_count + 1),
              !.scheduled_at = now + Backoff(t.retry_count + 1)]

----------------------------------------------------------------------------
(* Store commands *)

RPush(list, member) == list \o <<member>>

LPush(list, member) == <<member>> \o list

BLPop(list) == [member |-> list[1], rest |-> Tail(list)]

BRPopKeeps(list) == [member |-> list[Len(list)], rest |-> list]

BRPop(list) ==
    [member |-> list[Len(list)], rest |-> SubSeq(list, 1, Len(list) - 1)]

ZAdd(zset, member) == zset \cup {member}

ZRem(zset, member) == zset \ {member}

SAdd(set, member) == set \cup {member}

SRem(set, member) == set \ {member}

RECURSIVE ByScore(_)
ByScore(S) ==
    IF S = {} THEN <<>>
    ELSE LET m == CHOOSE x \in S : \A y \in S :
                      \/ x.scheduled_at < y.scheduled_at
                      \/ x.scheduled_at = y.scheduled_at /\ x.id <= y.id
         IN  <<m>> \o ByScore(S \ {m})

ZRangeAll(zset, lo, hi) == ByScore(zset)

ZRangeByScore(zset, lo, hi) ==
    ByScore({m \in zset : lo <= m.scheduled_at /\ m.scheduled_at <= hi})

----------------------------------------------------------------------------
(* Helpers of the history variables *)

Count(f, m) == IF m \in DOMAIN f THEN f[m] ELSE 0

Bump(f, m) == [x \in DOMAIN f \cup {m} |-> IF x = m THEN Count(f, m) + 1 ELSE f[x]]

Put(f, m, x) == [y \in DOMAIN f \cup {m} |-> IF y = m THEN x ELSE f[y]]

Append1(f, m, x) ==
    [y \in DOMAIN f \cup {m} |->
        IF y = m THEN (IF m \in DOMAIN f THEN Append(f[m], x) ELSE <<x>>) ELSE f[y]]

ReadyPushed == IF batch = "draining" THEN "mixed" ELSE batch

----------------------------------------------------------------------------
(* Runs: who produces what, and which workers are started *)

AllInputs(retries, delay_choices) ==
    {[task_type |-> tt, max_retries |-> mr, delay_seconds |-> d] :
        tt \in TaskTypes, mr \in retries, d \in delay_choices}

(* one worker loop, producers enqueue at any time *)
OneWorker ==
    [workers |-> {"w1"}, tasks |-> MaxTasks, early |-> FALSE,
     inputs |-> AllInputs(0 .. MaxRetries, {0}), errors |-> {"boom"},
     queues |-> {"webhooks"}]

(* two worker loops on the same queue *)
TwoWorkers ==
    [workers |-> {"w1", "w2"}, tasks |-> MaxTasksWorkers, early |-> FALSE,
     inputs |-> AllInputs(0 .. MaxRetries, {0, DelaySeconds}),
     errors |-> {"boom"}, queues |-> {"webhooks"}]

(* one worker loop, one task with a large retry budget *)
DeepRetries ==
    [workers |-> {"w1"}, tasks |-> 1, early |-> FALSE,
     inputs |-> AllInputs(0 .. MaxRetriesDeep, {0, DelaySeconds}),
     errors |-> {"boom", "timeout"}, queues |-> {"webhooks"}]

(* one worker loop, every task is enqueued before the first dequeue begins *)
Batch ==
    [workers |-> {"w1"}, tasks |-> MaxBatch, early |-> TRUE,
     inputs |-> {[task_type |-> "webhook.process", max_retries |-> 0,
                  delay_seconds |-> 0],
                 [task_type |-> "whatsapp.send_message", max_retries |-> 1,
                  delay_seconds |-> 0]},
     errors |-> {"boom"}, queues |-> {"webhooks"}]

InitWith(p) ==
    /\ profile = p
    /\ now = 0
    /\ ready = [q \in QueueNames |-> [x \in Priorities |-> <<>>]]
    /\ scheduled = [q \in QueueNames |-> {}]
    /\ processing = [q \in QueueNames |-> {}]
    /\ failed = [q \in QueueNames |-> <<>>]
    /\ running = FALSE
    /\ pc = [w \in Workers |-> "idle"]
    /\ wqueue = [w \in Workers |-> "webhooks"]
    /\ ready_tasks = [w \in Workers |-> <<>>]
    /\ prio = [w \in Workers |-> 1]
    /\ task_data = [w \in Workers |-> NoTask]
    /\ task = [w \in Workers |-> NoTask]
    /\ error = [w \in Workers |-> ""]
    /\ next_id = 1
    /\ attempts = <<>>
    /\ outcome = <<>>
    /\ completed = {}
    /\ batch = "filling"
    /\ last_pop = "none"
    /\ swept = <<>>
    /\ delays = <<>>
    /\ call_start = [w \in Workers |-> 0]
    /\ halted = {}
    /\ recompleted = {}
    /\ accepted = {}
    /\ raised = [w \in Workers |-> FALSE]
    /\ fail_result = [w \in Workers |-> FALSE]
    /\ rate_limit = [ip \in Clients |-> 0]
    /\ ttl = [ip \in Clients |-> 0]
    /\ rpc = [r \in Requests |-> "idle"]
    /\ client_ip = [r \in Requests |-> "10.0.0.1"]
    /\ current_calls = [r \in Requests |-> 0]
    /\ response = [r \in Requests |-> 0]

Init == InitWith(OneWorker)

InitWorkers == InitWith(TwoWorkers)

InitRetries == InitWith(DeepRetries)

InitBatch == InitWith(Batch)

----------------------------------------------------------------------------
(* AsyncQueue.enqueue: one store command, ZADD or LPUSH *)

EnqueueReadyOnly(t) ==
    /\ ready' = [ready EXCEPT ![t.queue_name][t.priority] = LPush(@, TaskData(t))]
    /\ batch' = ReadyPushed
    /\ UNCHANGED scheduled

(* every task goes to the regions of the queue "webhooks" *)
EnqueueOneQueue(t) ==
    IF t.delay_seconds > 0
    THEN /\ scheduled' = [scheduled EXCEPT !["webhooks"] = ZAdd(@, TaskData(t))]
         /\ UNCHANGED <<ready, batch>>
    ELSE /\ ready' = [ready EXCEPT !["webhooks"][t.priority] = LPush(@, TaskData(t))]
         /\ batch' = ReadyPushed
         /\ UNCHANGED scheduled

Enqueue(t) ==
    IF t.delay_seconds > 0
    THEN /\ scheduled' = [scheduled EXCEPT ![t.queue_name] = ZAdd(@, TaskData(t))]
         /\ UNCHANGED <<ready, batch>>
    ELSE /\ ready' = [ready EXCEPT ![t.queue_name][t.priority] = LPush(@, TaskData(t))]
         /\ batch' = ReadyPushed
         /\ UNCHANGED scheduled

(* A producer constructs a QueueTask and enqueues it *)
ProducerEnqueue ==
    /\ next_id <= profile.tasks
    /\ profile.early => batch = "filling"
    /\ \E q \in profile.queues, p \in Priorities, i \in profile.inputs :
          Enqueue(QueueTask(next_id, q, i.task_type, p, i.max_retries,
                            i.delay_seconds))
    /\ next_id' = next_id + 1
    /\ accepted' = accepted \cup {next_id}
    /\ UNCHANGED <<now, processing, failed, running, pc, wqueue, ready_tasks,
                   prio, task_data, task, error, profile, raised, call_start,
                   halted, recompleted, attempts, completed, last_pop, swept,
                   delays, outcome, fail_result, rate_vars>>

(* The clock moves on to the time at which some scheduled entry falls due *)
Tick ==
    /\ \E q \in QueueNames : \E m \in scheduled[q] :
          /\ m.scheduled_at > now
          /\ now' = m.scheduled_at
    /\ UNCHANGED <<ready, scheduled, processing, failed, running, pc, wqueue,
                   ready_tasks, prio, task_data, task, error, profile,
                   accepted, raised, call_start, halted, recompleted, next_id,
                   attempts, completed, batch, last_pop, swept, delays,
                   outcome, fail_result, rate_vars>>

----------------------------------------------------------------------------
(* Worker loop: start_worker / stop_worker *)

(* start_worker sets the flag and, with no await in between, passes the
   first loop test and enters dequeue *)
StartWorker(w) ==
    /\ w \in profile.workers
    /\ pc[w] = "idle"
    /\ \E q \in profile.queues : wqueue' = [wqueue EXCEPT ![w] = q]
    /\ running' = TRUE
    /\ pc' = [pc EXCEPT ![w] = "sweep"]
    /\ UNCHANGED <<now, ready, scheduled, processing, failed, ready_tasks,
                   prio, task_data, task, error, profile, accepted, raised,
                   call_start, halted, recompleted, next_id, attempts,
                   completed, batch, last_pop, swept, delays, outcome,
                   fail_result, rate_vars>>

StopWorker ==
    /\ running
    /\ running' = FALSE
    /\ halted' = halted \cup {w \in Workers : pc[w] \notin {"idle", "stopped"}}
    /\ UNCHANGED <<now, ready, scheduled, processing, failed, pc, wqueue,
                   ready_tasks, prio, task_data, task, error, profile,
                   accepted, raised, call_start, recompleted, next_id,
                   attempts, completed, batch, last_pop, swept, delays,
                   outcome, fail_result, rate_vars>>

(* while self.running: the loop test when the worker resumes after the
   await of an iteration has completed; a true test enters dequeue *)
LoopTest(w) ==
    /\ pc[w] = "loop"
    /\ pc' = [pc EXCEPT ![w] = IF running THEN "sweep" ELSE "stopped"]
    /\ fail_result' = [fail_result EXCEPT ![w] = FALSE]
    /\ UNCHANGED <<now, ready, scheduled, processing, failed, running, wqueue,
                   ready_tasks, prio, task_data, task, error, profile,
                   accepted, raised, call_start, halted, recompleted, next_id,
                   attempts, completed, batch, last_pop, swept, delays,
                   outcome, rate_vars>>

----------------------------------------------------------------------------
(* AsyncQueue._process_scheduled_tasks, called first by dequeue *)

SweepRead(w) ==
    /\ pc[w] = "sweep"
    /\ LET due == ZRangeByScore(scheduled[wqueue[w]], 0, now)
       IN  /\ ready_tasks' = [ready_tasks EXCEPT ![w] = due]
           /\ pc' = [pc EXCEPT ![w] = IF due = <<>> THEN "brpop" ELSE "zrem"]
    /\ prio' = [prio EXCEPT ![w] = 1]
    /\ batch' = IF batch = "filling" THEN "draining" ELSE batch
    /\ call_start' = [call_start EXCEPT ![w] = now]
    /\ UNCHANGED <<now, ready, scheduled, processing, failed, running, wqueue,
                   task_data, task, error, profile, accepted, raised, halted,
                   recompleted, next_id, attempts, completed, last_pop, swept,
                   delays, outcome, fail_result, rate_vars>>

SweepZrem(w) ==
    /\ pc[w] = "zrem"
    /\ scheduled' = [scheduled EXCEPT ![wqueue[w]] = ZRem(@, Head(ready_tasks[w]))]
    /\ pc' = [pc EXCEPT ![w] = "lpush"]
    /\ UNCHANGED <<now, ready, processing, failed, running, wqueue,
                   ready_tasks, prio, task_data, task, error, profile,
                   accepted, raised, call_start, halted, recompleted, next_id,
                   attempts, completed, batch, last_pop, swept, delays,
                   outcome, fail_result, rate_vars>>

(* every swept entry goes to the ready list of priority NORMAL *)
SweepLpushNormal(w) ==
    /\ pc[w] = "lpush"
    /\ LET m == Head(ready_tasks[w])
       IN  /\ ready' = [ready EXCEPT ![wqueue[w]]["normal"] = LPush(@, m)]
           /\ swept' = Bump(swept, m)
    /\ ready_tasks' = [ready_tasks EXCEPT ![w] = Tail(@)]
    /\ pc' = [pc EXCEPT ![w] = IF Tail(ready_tasks[w]) = <<>> THEN "brpop" ELSE "zrem"]
    /\ batch' = ReadyPushed
    /\ UNCHANGED <<now, scheduled, processing, failed, running, wqueue, prio,
                   task_data, task, error, profile, accepted, raised,
                   call_start, halted, recompleted, next_id, attempts,
                   completed, last_pop, delays, outcome, fail_result,
                   rate_vars>>

SweepLpush(w) ==
    /\ pc[w] = "lpush"
    /\ LET m == Head(ready_tasks[w])
       IN  /\ ready' = [ready EXCEPT ![wqueue[w]][m.priority] = LPush(@, m)]
           /\ swept' = Bump(swept, m)
    /\ ready_tasks' = [ready_tasks EXCEPT ![w] = Tail(@)]
    /\ pc' = [pc EXCEPT ![w] = IF Tail(ready_tasks[w]) = <<>> THEN "brpop" ELSE "zrem"]
    /\ batch' = ReadyPushed
    /\ UNCHANGED <<now, scheduled, processing, failed, running, wqueue, prio,
                   task_data, task, error, profile, accepted, raised,
                   call_start, halted, recompleted, next_id, attempts,
                   completed, last_pop, delays, outcome, fail_result,
                   rate_vars>>

----------------------------------------------------------------------------
(* AsyncQueue.dequeue: one BRPOP per priority, then SADD *)

BrpopList(w) == ready[wqueue[w]][PriorityOrder[prio[w]]]

(* BRPOP finds (or is handed, while it blocks) a member *)
BrpopMember(w) ==
    /\ pc[w] = "brpop"
    /\ BrpopList(w) # <<>>
    /\ task_data' = [task_data EXCEPT ![w] = BRPop(BrpopList(w)).member]
    /\ ready' = [ready EXCEPT ![wqueue[w]][PriorityOrder[prio[w]]] = BRPop(@).rest]
    /\ pc' = [pc EXCEPT ![w] = "sadd"]
    /\ last_pop' = IF batch = "draining" THEN PriorityOrder[prio[w]] ELSE "none"
    /\ UNCHANGED <<now, scheduled, processing, failed, running, wqueue,
                   ready_tasks, prio, task, error, profile, accepted, raised,
                   call_start, halted, recompleted, next_id, attempts,
                   completed, batch, swept, delays, outcome, fail_result,
                   rate_vars>>

(* after the last priority the pops begin again with the first *)
BrpopTimeoutAgain(w) ==
    /\ pc[w] = "brpop"
    /\ BrpopList(w) = <<>>
    /\ prio' = [prio EXCEPT ![w] = IF @ < Len(PriorityOrder) THEN @ + 1 ELSE 1]
    /\ UNCHANGED <<now, ready, scheduled, processing, failed, running, wqueue,
                   ready_tasks, task_data, task, error, profile, accepted,
                   halted, recompleted, next_id, attempts, completed, batch,
                   last_pop, swept, delays, outcome, pc, call_start, raised,
                   fail_result, rate_vars>>

(* BRPOP returns nothing after its timeout: next priority, or return None *)
BrpopTimeout(w) ==
    /\ pc[w] = "brpop"
    /\ BrpopList(w) = <<>>
    /\ IF prio[w] < Len(PriorityOrder)
       THEN /\ prio' = [prio EXCEPT ![w] = @ + 1]
            /\ UNCHANGED <<pc, call_start, raised>>
       ELSE /\ prio' = [prio EXCEPT ![w] = 1]
            /\ pc' = [pc EXCEPT ![w] = "loop"]
            /\ call_start' = [call_start EXCEPT ![w] = 0]
            /\ raised' = [raised EXCEPT ![w] = FALSE]
    /\ UNCHANGED <<now, ready, scheduled, processing, failed, running, wqueue,
                   ready_tasks, task_data, task, error, profile, accepted,
                   halted, recompleted, next_id, attempts, completed, batch,
                   last_pop, swept, delays, outcome, fail_result, rate_vars>>

(* SADD to the processing set; dequeue returns the task to the worker loop *)
Sadd(w) ==
    /\ pc[w] = "sadd"
    /\ processing' = [processing EXCEPT ![wqueue[w]] = SAdd(@, task_data[w])]
    /\ task' = [task EXCEPT ![w] = DictToTask(task_data[w])]
    /\ task_data' = [task_data EXCEPT ![w] = NoTask]
    /\ prio' = [prio EXCEPT ![w] = 1]
    /\ pc' = [pc EXCEPT ![w] = "process"]
    /\ call_start' = [call_start EXCEPT ![w] = 0]
    /\ raised' = [raised EXCEPT ![w] = FALSE]
    /\ UNCHANGED <<now, ready, scheduled, failed, running, wqueue,
                   ready_tasks, error, profile, accepted, halted, recompleted,
                   next_id, attempts, completed, batch, last_pop, swept,
                   delays, outcome, fail_result, rate_vars>>

----------------------------------------------------------------------------
(* AsyncQueue._process_task *)

NoProcessorMessage(task_type) == "No processor for task type: " \o task_type

(* the task is dropped without a call of fail_task *)
NoProcessorIgnored(w) ==
    /\ pc[w] = "process"
    /\ task[w].task_type \notin task_processors
    /\ attempts' = Bump(attempts, task[w].id)
    /\ outcome' = Put(outcome, task[w].id, NoProcessorMessage(task[w].task_type))
    /\ task' = [task EXCEPT ![w] = NoTask]
    /\ pc' = [pc EXCEPT ![w] = "loop"]
    /\ UNCHANGED <<now, ready, scheduled, processing, failed, running, wqueue,
                   ready_tasks, prio, task_data, error, profile, accepted,
                   raised, call_start, halted, recompleted, next_id,
                   completed, batch, last_pop, swept, delays, fail_result,
                   rate_vars>>

NoProcessor(w) ==
    /\ pc[w] = "process"
    /\ task[w].task_type \notin task_processors
    /\ error' = [error EXCEPT ![w] = NoProcessorMessage(task[w].task_type)]
    /\ attempts' = Bump(attempts, task[w].id)
    /\ outcome' = Put(outcome, task[w].id, NoProcessorMessage(task[w].task_type))
    /\ pc' = [pc EXCEPT ![w] = "fail"]
    /\ UNCHANGED <<now, ready, scheduled, processing, failed, running, wqueue,
                   ready_tasks, prio, task_data, task, profile, accepted,
                   raised, call_start, halted, recompleted, next_id,
                   completed, batch, last_pop, swept, delays, fail_result,
                   rate_vars>>

(* the cycle ends without a call of complete_task or fail_task *)
ProcessorReturnsUnmarked(w) ==
    /\ pc[w] = "process"
    /\ task[w].task_type \in task_processors
    /\ attempts' = Bump(attempts, task[w].id)
    /\ outcome' = Put(outcome, task[w].id, "returned")
    /\ task' = [task EXCEPT ![w] = NoTask]
    /\ pc' = [pc EXCEPT ![w] = "loop"]
    /\ UNCHANGED <<now, ready, scheduled, processing, failed, running, wqueue,
                   ready_tasks, prio, task_data, error, profile, accepted,
                   raised, call_start, halted, recompleted, next_id,
                   completed, batch, last_pop, swept, delays, fail_result,
                   rate_vars>>

ProcessorReturns(w) ==
    /\ pc[w] = "process"
    /\ task[w].task_type \in task_processors
    /\ attempts' = Bump(attempts, task[w].id)
    /\ outcome' = Put(outcome, task[w].id, "returned")
    /\ pc' = [pc EXCEPT ![w] = "complete"]
    /\ UNCHANGED <<now, ready, scheduled, processing, failed, running, wqueue,
                   ready_tasks, prio, task_data, task, error, profile,
                   accepted, raised, call_start, halted, recompleted, next_id,
                   completed, batch, last_pop, swept, delays, fail_result,
                   rate_vars>>

ProcessorRaisesEscapes(w) ==
    /\ pc[w] = "process"
    /\ task[w].task_type \in task_processors
    /\ \E e \in profile.errors :
          /\ error' = [error EXCEPT ![w] = e]
          /\ outcome' = Put(outcome, task[w].id, e)
    /\ attempts' = Bump(attempts, task[w].id)
    /\ pc' = [pc EXCEPT ![w] = "crashed"]
    /\ UNCHANGED <<now, ready, scheduled, processing, failed, running, wqueue,
                   ready_tasks, prio, task_data, task, profile, accepted,
                   raised, call_start, halted, recompleted, next_id,
                   completed, batch, last_pop, swept, delays, fail_result,
                   rate_vars>>

ProcessorRaises(w) ==
    /\ pc[w] = "process"
    /\ task[w].task_type \in task_processors
    /\ \E e \in profile.errors :
          /\ error' = [error EXCEPT ![w] = e]
          /\ outcome' = Put(outcome, task[w].id, e)
    /\ attempts' = Bump(attempts, task[w].id)
    /\ pc' = [pc EXCEPT ![w] = "fail"]
    /\ UNCHANGED <<now, ready, scheduled, processing, failed, running, wqueue,
                   ready_tasks, prio, task_data, task, profile, accepted,
                   raised, call_start, halted, recompleted, next_id,
                   completed, batch, last_pop, swept, delays, fail_result,
                   rate_vars>>

----------------------------------------------------------------------------
(* AsyncQueue.complete_task: SREM *)

(* complete_task treats a member that SREM did not find as an error, which
   _process_task hands to fail_task *)
CompleteTaskChecked(w) ==
    /\ pc[w] = "complete"
    /\ IF TaskToDict(task[w]) \in processing[task[w].queue_name]
       THEN /\ processing' = [processing EXCEPT ![task[w].queue_name] =
                                  SRem(@, TaskToDict(task[w]))]
            /\ completed' = completed \cup {task[w].id}
            /\ task' = [task EXCEPT ![w] = NoTask]
            /\ pc' = [pc EXCEPT ![w] = "loop"]
            /\ UNCHANGED error
       ELSE /\ error' = [error EXCEPT ![w] = "not in processing"]
            /\ pc' = [pc EXCEPT ![w] = "fail"]
            /\ UNCHANGED <<processing, completed, task>>
    /\ UNCHANGED <<now, ready, scheduled, failed, running, wqueue,
                   ready_tasks, prio, task_data, profile, accepted, raised,
                   call_start, halted, recompleted, next_id, attempts, batch,
                   last_pop, swept, delays, outcome, fail_result, rate_vars>>

CompleteTask(w) ==
    /\ pc[w] = "complete"
    /\ processing' = [processing EXCEPT ![task[w].queue_name] = SRem(@, TaskToDict(task[w]))]
    /\ completed' = completed \cup {task[w].id}
    /\ recompleted' =
           IF TaskToDict(task[w]) \in processing[task[w].queue_name]
           THEN recompleted ELSE recompleted \cup {task[w].id}
    /\ task' = [task EXCEPT ![w] = NoTask]
    /\ pc' = [pc EXCEPT ![w] = "loop"]
    /\ UNCHANGED <<now, ready, scheduled, failed, running, wqueue,
                   ready_tasks, prio, task_data, error, profile, accepted,
                   raised, call_start, halted, next_id, attempts, batch,
                   last_pop, swept, delays, outcome, fail_result, rate_vars>>

----------------------------------------------------------------------------
(* AsyncQueue.fail_task: SREM, then either enqueue (ZADD) or LPUSH failed *)

FailBranchShort(t) ==
    IF t.retry_count + 1 < t.max_retries THEN "retry" ELSE "dead"

FailBranchOver(t) ==
    IF t.retry_count <= t.max_retries THEN "retry" ELSE "dead"

FailBranch(t) == IF t.retry_count < t.max_retries THEN "retry" ELSE "dead"

FailSrem(w) ==
    /\ pc[w] = "fail"
    /\ processing' = [processing EXCEPT ![task[w].queue_name] = SRem(@, TaskToDict(task[w]))]
    /\ pc' = [pc EXCEPT ![w] = FailBranch(task[w])]
    /\ UNCHANGED <<now, ready, scheduled, failed, running, wqueue,
                   ready_tasks, prio, task_data, task, error, profile,
                   accepted, raised, call_start, halted, recompleted, next_id,
                   attempts, completed, batch, last_pop, swept, delays,
                   outcome, fail_result, rate_vars>>

FailRetry(w) ==
    /\ pc[w] = "retry"
    /\ Enqueue(RetryTask(task[w]))
    /\ delays' = Append1(delays, task[w].id, RetryTask(task[w]).delay_seconds)
    /\ task' = [task EXCEPT ![w] = NoTask]
    /\ error' = [error EXCEPT ![w] = ""]
    /\ pc' = [pc EXCEPT ![w] = "loop"]
    /\ fail_result' = [fail_result EXCEPT ![w] = TRUE]
    /\ UNCHANGED <<now, processing, failed, running, wqueue, ready_tasks,
                   prio, task_data, profile, accepted, raised, call_start,
                   halted, recompleted, next_id, attempts, completed,
                   last_pop, swept, outcome, rate_vars>>

(* fail_task returns True after the push to the failed list *)
FailPermanentlyTrue(w) ==
    /\ pc[w] = "dead"
    /\ failed' = [failed EXCEPT ![task[w].queue_name] = LPush(@, FailedData(task[w], error[w]))]
    /\ task' = [task EXCEPT ![w] = NoTask]
    /\ error' = [error EXCEPT ![w] = ""]
    /\ pc' = [pc EXCEPT ![w] = "loop"]
    /\ fail_result' = [fail_result EXCEPT ![w] = TRUE]
    /\ UNCHANGED <<now, ready, scheduled, processing, running, wqueue,
                   ready_tasks, prio, task_data, profile, accepted, raised,
                   call_start, halted, recompleted, next_id, attempts,
                   completed, batch, last_pop, swept, delays, outcome,
                   rate_vars>>

FailPermanently(w) ==
    /\ pc[w] = "dead"
    /\ failed' = [failed EXCEPT ![task[w].queue_name] = LPush(@, FailedData(task[w], error[w]))]
    /\ task' = [task EXCEPT ![w] = NoTask]
    /\ error' = [error EXCEPT ![w] = ""]
    /\ pc' = [pc EXCEPT ![w] = "loop"]
    /\ fail_result' = [fail_result EXCEPT ![w] = FALSE]
    /\ UNCHANGED <<now, ready, scheduled, processing, running, wqueue,
                   ready_tasks, prio, task_data, profile, accepted, raised,
                   call_start, halted, recompleted, next_id, attempts,
                   completed, batch, last_pop, swept, delays, outcome,
                   rate_vars>>

----------------------------------------------------------------------------

WorkerStep(w) ==
    \/ StartWorker(w)
    \/ LoopTest(w)
    \/ SweepRead(w)
    \/ SweepZrem(w)
    \/ SweepLpush(w)
    \/ BrpopMember(w)
    \/ BrpopTimeout(w)
    \/ Sadd(w)
    \/ NoProcessor(w)
    \/ ProcessorReturns(w)
    \/ ProcessorRaises(w)
    \/ CompleteTask(w)
    \/ FailSrem(w)
    \/ FailRetry(w)
    \/ FailPermanently(w)

Next ==
    \/ ProducerEnqueue
    \/ Tick
    \/ StopWorker
    \/ \E w \in Workers : WorkerStep(w)

Spec == Init /\ [][Next]_vars

SpecWorkers == InitWorkers /\ [][Next]_vars

SpecRetries == InitRetries /\ [][Next]_vars

SpecBatch == InitBatch /\ [][Next]_vars

----------------------------------------------------------------------------
(* AsyncQueue.get_queue_stats: LLEN of the four ready lists, ZCARD, SCARD,
   LLEN of the failed list, read in one state *)

GetQueueStats(queue_name) ==
    [queue_name |-> queue_name,
     critical_count |-> Len(ready[queue_name]["critical"]),
     high_count |-> Len(ready[queue_name]["high"]),
     normal_count |-> Len(ready[queue_name]["normal"]),
     low_count |-> Len(ready[queue_name]["low"]),
     scheduled_count |-> Cardinality(scheduled[queue_name]),
     processing_count |-> Cardinality(processing[queue_name]),
     failed_count |-> Len(failed[queue_name])]

----------------------------------------------------------------------------
(* Store failures.  A store command raises instead of taking effect, and the
   try/except around it takes over: _process_scheduled_tasks logs and
   returns to dequeue, which goes on to its blocking pops; dequeue returns
   None; enqueue, complete_task and fail_task return False, which
   _process_task ignores.  No exception leaves a method of AsyncQueue, so
   the handler of start_worker itself (queue.py:218) is never entered. *)

MaxTasksFaults == 2

EmptyName == ""

(* one worker loop, a store whose commands can fail, and producers that
   also construct tasks with an empty task_type *)
Faulty ==
    [workers |-> {"w1"}, tasks |-> MaxTasksFaults, early |-> FALSE,
     inputs |-> {[task_type |-> "webhook.process", max_retries |-> MaxRetries,
                  delay_seconds |-> 0],
                 [task_type |-> EmptyName, max_retries |-> 0,
                  delay_seconds |-> 0]},
     errors |-> {"boom"}, queues |-> {"webhooks"}]

InitFaults == InitWith(Faulty)

(* enqueue called by a producer: ZADD or LPUSH raises, enqueue returns False *)
ProducerEnqueueFails ==
    /\ next_id <= profile.tasks
    /\ profile.early => batch = "filling"
    /\ next_id' = next_id + 1
    /\ UNCHANGED <<now, ready, scheduled, processing, failed, running, pc,
                   wqueue, ready_tasks, prio, task_data, task, error, profile,
                   attempts, outcome, completed, batch, last_pop, swept,
                   delays, call_start, halted, recompleted, accepted, raised,
                   fail_result, rate_vars>>

(* ZRANGEBYSCORE, ZREM or LPUSH of the sweep raises: the rest of the sweep is
   skipped and dequeue goes on to its blocking pops *)
SweepFails(w) ==
    /\ pc[w] \in {"sweep", "zrem", "lpush"}
    /\ ready_tasks' = [ready_tasks EXCEPT ![w] = <<>>]
    /\ prio' = [prio EXCEPT ![w] = 1]
    /\ pc' = [pc EXCEPT ![w] = "brpop"]
    /\ raised' = [raised EXCEPT ![w] = TRUE]
    /\ call_start' = IF pc[w] = "sweep" THEN [call_start EXCEPT ![w] = now]
                     ELSE call_start
    /\ batch' = IF batch = "filling" THEN "draining" ELSE batch
    /\ UNCHANGED <<now, ready, scheduled, processing, failed, running, wqueue,
                   task_data, task, error, profile, next_id, attempts,
                   outcome, completed, last_pop, swept, delays, halted,
                   recompleted, accepted, fail_result, rate_vars>>

(* BRPOP or SADD raises: dequeue returns None *)
DequeueFails(w) ==
    /\ pc[w] \in {"brpop", "sadd"}
    /\ task_data' = [task_data EXCEPT ![w] = NoTask]
    /\ prio' = [prio EXCEPT ![w] = 1]
    /\ pc' = [pc EXCEPT ![w] = "loop"]
    /\ call_start' = [call_start EXCEPT ![w] = 0]
    /\ raised' = [raised EXCEPT ![w] = FALSE]
    /\ UNCHANGED <<now, ready, scheduled, processing, failed, running, wqueue,
                   ready_tasks, task, error, profile, next_id, attempts,
                   outcome, completed, batch, last_pop, swept, delays, halted,
                   recompleted, accepted, fail_result, rate_vars>>

(* SREM of complete_task raises: complete_task returns False *)
CompleteFails(w) ==
    /\ pc[w] = "complete"
    /\ task' = [task EXCEPT ![w] = NoTask]
    /\ pc' = [pc EXCEPT ![w] = "loop"]
    /\ UNCHANGED <<now, ready, scheduled, processing, failed, running, wqueue,
                   ready_tasks, prio, task_data, error, profile, next_id,
                   attempts, outcome, completed, batch, last_pop, swept,
                   delays, call_start, halted, recompleted, accepted, raised,
                   fail_result, rate_vars>>

(* SREM of fail_task, or its LPUSH to the failed list, raises: fail_task
   returns False *)
FailTaskFails(w) ==
    /\ pc[w] \in {"fail", "dead"}
    /\ task' = [task EXCEPT ![w] = NoTask]
    /\ error' = [error EXCEPT ![w] = ""]
    /\ pc' = [pc EXCEPT ![w] = "loop"]
    /\ fail_result' = [fail_result EXCEPT ![w] = FALSE]
    /\ UNCHANGED <<now, ready, scheduled, processing, failed, running, wqueue,
                   ready_tasks, prio, task_data, profile, next_id, attempts,
                   outcome, completed, batch, last_pop, swept, delays,
                   call_start, halted, recompleted, accepted, raised,
                   rate_vars>>

(* ZADD of the enqueue called by fail_task raises: enqueue, and with it
   fail_task, returns False *)
RetryFails(w) ==
    /\ pc[w] = "retry"
    /\ delays' = Append1(delays, task[w].id, RetryTask(task[w]).delay_seconds)
    /\ task' = [task EXCEPT ![w] = NoTask]
    /\ error' = [error EXCEPT ![w] = ""]
    /\ pc' = [pc EXCEPT ![w] = "loop"]
    /\ fail_result' = [fail_result EXCEPT ![w] = FALSE]
    /\ UNCHANGED <<now, ready, scheduled, processing, failed, running, wqueue,
                   ready_tasks, prio, task_data, profile, next_id, attempts,
                   outcome, completed, batch, last_pop, swept, call_start,
                   halted, recompleted, accepted, raised, rate_vars>>

Fault(w) ==
    \/ SweepFails(w)
    \/ DequeueFails(w)
    \/ CompleteFails(w)
    \/ FailTaskFails(w)
    \/ RetryFails(w)

NextFaults ==
    \/ Next
    \/ ProducerEnqueueFails
    \/ \E w \in Workers : Fault(w)

(* every coroutine that can take a step is scheduled again by the event loop *)
SpecFaults ==
    /\ InitFaults
    /\ [][NextFaults]_vars
    /\ \A w \in Workers : WF_vars(WorkerStep(w) \/ Fault(w))

----------------------------------------------------------------------------
(* Store keys.  The four regions of a queue are the keys built from its name:
   the model keeps one variable per region, indexed by the queue name (and
   the priority), in place of the store's one key space *)

QueueKey(queue_name, priority) == "queue:" \o queue_name \o ":" \o priority

ScheduledKey(queue_name) == "scheduled:" \o queue_name

ProcessingKey(queue_name) == "processing:" \o queue_name

FailedKey(queue_name) == "failed:" \o queue_name

----------------------------------------------------------------------------
(* Two queues in one store *)

MaxTasksQueues == 2

(* one worker loop on one of two queues, every task is enqueued, on either
   queue, before the first dequeue begins *)
TwoQueues ==
    [workers |-> {"w1"}, tasks |-> MaxTasksQueues, early |-> TRUE,
     inputs |-> {[task_type |-> "webhook.process", max_retries |-> 0,
                  delay_seconds |-> 0],
                 [task_type |-> "whatsapp.send_message", max_retries |-> 1,
                  delay_seconds |-> 0]},
     errors |-> {"boom"}, queues |-> QueueNames]

InitQueues == InitWith(TwoQueues)

SpecQueues == InitQueues /\ [][Next]_vars

----------------------------------------------------------------------------
(* Properties *)

Higher(p, q) == PRIORITY_WEIGHTS[p] > PRIORITY_WEIGHTS[q]

Pops(w) == pc[w] = "brpop" /\ pc'[w] = "sadd"

Fresh(m) == m.retry_count = 0 /\ m.scheduled_at = m.created_at

(* C1: whenever the blocking pop hands dequeue the task of priority p that it
   returns, no ready list of that queue with a priority higher than p is
   non-empty at that moment, also when producers enqueue while dequeue is in
   the middle of its per-priority pops. *)
C1_StrictPriority ==
    [][\A w \in Workers : Pops(w) =>
          \A p \in Priorities :
              Higher(p, task_data'[w].priority) => ready[wqueue[w]][p] = <<>>]_vars

(* C2: when every task was enqueued (with no delay) before the first dequeue
   began and nothing has been pushed to a ready list since, each task that
   dequeue takes has a priority no higher than the one taken before it. *)
C2_PriorityOrder ==
    [][\A w \in Workers :
          (Pops(w) /\ batch = "draining" /\ last_pop # "none") =>
              ~Higher(task_data'[w].priority, last_pop)]_vars

(* C2 witness: the task enqueued first, of priority LOW, is taken by dequeue
   only after the two tasks enqueued after it, of higher priorities. *)
C2_Witness ==
    \E w \in Workers :
        /\ pc[w] = "sadd"
        /\ batch = "draining"
        /\ task_data[w].id = 1
        /\ task_data[w].priority = "low"
        /\ {2, 3} \subseteq DOMAIN attempts

(* C3: when dequeue takes a task B that was enqueued with no delay and has
   never failed, no such task A of the same queue and priority that was
   enqueued before B is still waiting in the ready list: A was taken first. *)
C3_Fifo ==
    [][\A w \in Workers :
          (Pops(w) /\ Fresh(task_data'[w])) =>
              \A p \in Priorities :
                  \A i \in 1 .. Len(ready'[wqueue[w]][p]) :
                      LET a == ready'[wqueue[w]][p][i]
                      IN  (Fresh(a) /\ a.priority = task_data'[w].priority)
                              => a.id > task_data'[w].id]_vars

(* C3 witness: of two tasks of one priority, the one enqueued first has been
   taken by dequeue while the one enqueued second still waits. *)
C3_Witness ==
    \E w \in Workers :
        /\ pc[w] = "sadd"
        /\ task_data[w].id = 1
        /\ \E m \in {ready[wqueue[w]][task_data[w].priority][i] :
                        i \in 1 .. Len(ready[wqueue[w]][task_data[w].priority])} :
               m.id = 2 /\ Fresh(m)

----------------------------------------------------------------------------
(* Where the records of a task id are *)

Members(list) == {list[i] : i \in 1 .. Len(list)}

Ids(set) == {m.id : m \in set}

ReadyMembers(lists) == UNION {Members(lists[p]) : p \in Priorities}

Leaves(w, at) == pc[w] = at /\ pc'[w] # at

ClaimedDelay(k) == IF (2 ^ k) * 60 < 3600 THEN (2 ^ k) * 60 ELSE 3600

(* C4: fail_task on a task with retry_count < max_retries removes it from the
   processing set, and its last step adds to the scheduled set, and nowhere
   else, the record with retry_count one larger and scheduled_at equal to
   now + min(2^retry_count * 60, 3600) for the incremented retry_count; the
   task is then in the scheduled set only, although the task the worker holds
   came out of dequeue with delay_seconds = 0. *)
C4_RetryBranch ==
    [][\A w \in Workers :
          LET t == task[w]
              q == t.queue_name
              old == [id |-> t.id, queue_name |-> q, task_type |-> t.task_type,
                      priority |-> t.priority, max_retries |-> t.max_retries,
                      retry_count |-> t.retry_count,
                      created_at |-> t.created_at,
                      scheduled_at |-> t.scheduled_at]
              new == [old EXCEPT
                         !.retry_count = t.retry_count + 1,
                         !.scheduled_at = now + ClaimedDelay(t.retry_count + 1)]
          IN  /\ (Leaves(w, "fail") /\ t.retry_count < t.max_retries) =>
                     /\ pc'[w] = "retry"
                     /\ old \notin processing'[q]
              /\ Leaves(w, "retry") =>
                     /\ t.delay_seconds = 0
                     /\ t.retry_count < t.max_retries
                     /\ scheduled'[q] = scheduled[q] \cup {new}
                     /\ new \notin scheduled[q]
                     /\ ready' = ready
                     /\ failed' = failed
                     /\ processing' = processing
                     /\ t.id \in Ids(scheduled'[q])
                     /\ t.id \notin Ids(ReadyMembers(ready'[q]))
                     /\ t.id \notin Ids(processing'[q])
                     /\ t.id \notin Ids(Members(failed'[q]))]_vars

(* C4 witness: a task that was enqueued with no delay has failed a second
   time and sits in the scheduled set with retry_count = 2, due 240 s after
   that failure. *)
C4_Witness ==
    \E m \in scheduled["webhooks"] :
        /\ m.retry_count = 2
        /\ m.scheduled_at = now + 240
        /\ m.id \in DOMAIN delays
        /\ delays[m.id] = <<120, 240>>
        /\ m.created_at = 0
        /\ m.id \notin Ids(ReadyMembers(ready["webhooks"]))
        /\ m.id \notin Ids(processing["webhooks"])
        /\ pc["w1"] = "loop"

(* C5: fail_task on a task with retry_count >= max_retries removes it from
   the processing set, and its last step puts exactly one record, carrying
   the error message and failed_at = now, at the head of the failed list of
   the task's queue; the scheduled set and the ready lists are not touched. *)
C5_TerminalBranch ==
    [][\A w \in Workers :
          LET t == task[w]
              q == t.queue_name
              old == [id |-> t.id, queue_name |-> q, task_type |-> t.task_type,
                      priority |-> t.priority, max_retries |-> t.max_retries,
                      retry_count |-> t.retry_count,
                      created_at |-> t.created_at,
                      scheduled_at |-> t.scheduled_at]
          IN  /\ (Leaves(w, "fail") /\ t.retry_count >= t.max_retries) =>
                     /\ pc'[w] = "dead"
                     /\ old \notin processing'[q]
              /\ Leaves(w, "dead") =>
                     /\ t.retry_count >= t.max_retries
                     /\ Len(failed'[q]) = Len(failed[q]) + 1
                     /\ Tail(failed'[q]) = failed[q]
                     /\ Head(failed'[q]).id = t.id
                     /\ Head(failed'[q]).retry_count = t.retry_count
                     /\ Head(failed'[q]).error_message = error[w]
                     /\ Head(failed'[q]).failed_at = now
                     /\ \A r \in QueueNames \ {q} : failed'[r] = failed[r]
                     /\ scheduled' = scheduled
                     /\ ready' = ready
                     /\ processing' = processing
                     /\ t.id \notin Ids(ReadyMembers(ready'[q]))
                     /\ t.id \notin Ids(scheduled'[q])
                     /\ t.id \notin Ids(processing'[q])]_vars

(* C5 witness: a task with max_retries = 0 has failed once and its record,
   with the error message, is at the head of the failed list, before the
   record of a task that failed earlier. *)
C5_Witness ==
    LET f == failed["webhooks"]
    IN  /\ Len(f) >= 2
        /\ f[1].max_retries = 0
        /\ f[1].error_message = "boom"
        /\ attempts[f[1].id] = 1
        /\ f[1].id \notin DOMAIN delays
        /\ f[2].failed_at <= f[1].failed_at
        /\ f[2].id # f[1].id

AllFailed == UNION {Members(failed[q]) : q \in QueueNames}

AllStored ==
    UNION {ReadyMembers(ready[q]) \cup scheduled[q] \cup processing[q]
               \cup Members(failed[q]) : q \in QueueNames}

AllHeld == {task[w] : w \in Workers} \cup {task_data[w] : w \in Workers}
               \cup UNION {Members(ready_tasks[w]) : w \in Workers}

DelaysOf(id) == IF id \in DOMAIN delays THEN delays[id] ELSE <<>>

(* C6: the k-th failure of a task that is retried sets delay_seconds to
   min(2^k * 60, 3600): 120, 240, 480, 960, 1920, then 3600; the delay never
   exceeds 3600 and grows strictly until it has reached 3600; a task with
   max_retries = 5 is moved to the failed list by its 6th failure, after the
   delays 120, 240, 480, 960, 1920. *)
C6_BackoffSequence ==
    /\ \A id \in DOMAIN delays :
           \A k \in 1 .. Len(delays[id]) :
               /\ delays[id][k] =
                      (IF k <= 5 THEN <<120, 240, 480, 960, 1920>>[k] ELSE 3600)
               /\ delays[id][k] <= 3600
               /\ k > 1 => (delays[id][k - 1] < delays[id][k]
                               \/ delays[id][k - 1] = 3600)
    /\ \A m \in AllStored \cup (AllHeld \ {NoTask}) :
           Len(DelaysOf(m.id)) <= m.max_retries
    /\ \A f \in AllFailed :
           /\ Len(DelaysOf(f.id)) = f.max_retries
           /\ attempts[f.id] = f.max_retries + 1
           /\ f.max_retries = 5 =>
                  /\ delays[f.id] = <<120, 240, 480, 960, 1920>>
                  /\ attempts[f.id] = 6

(* C6 witness: a task with max_retries = 5 is in the failed list after six
   failures. *)
C6_Witness ==
    \E f \in AllFailed :
        /\ f.max_retries = 5
        /\ attempts[f.id] = 6
        /\ Len(delays[f.id]) = 5

(* C7: a task with max_retries = N whose processing fails every time is
   processed exactly N + 1 times: after its k-th failure, k <= N, it is
   rescheduled with retry_count = k, and the failure number N + 1 puts it in
   the failed list with retry_count = N and the error message of that last
   attempt. *)
C7_RetryBudget ==
    [][\A w \in Workers :
          LET t == task[w]
              q == t.queue_name
          IN  /\ Leaves(w, "retry") =>
                     /\ attempts[t.id] = t.retry_count + 1
                     /\ attempts[t.id] <= t.max_retries
                     /\ \E m \in scheduled'[q] :
                            m.id = t.id /\ m.retry_count = attempts[t.id]
              /\ Leaves(w, "dead") =>
                     /\ attempts[t.id] = t.max_retries + 1
                     /\ Head(failed'[q]).id = t.id
                     /\ Head(failed'[q]).retry_count = t.max_retries
                     /\ Head(failed'[q]).error_message = outcome[t.id]
                     /\ outcome[t.id] # "returned"]_vars

(* C7 witness: a task with max_retries = 2 whose processor raised "boom" on
   the third attempt is in the failed list with retry_count = 2 and
   error_message "boom". *)
C7_Witness ==
    \E f \in AllFailed :
        /\ f.max_retries = 2
        /\ f.retry_count = 2
        /\ f.task_type \in task_processors
        /\ f.error_message = "boom"
        /\ attempts[f.id] = 3
        /\ delays[f.id] = <<120, 240>>

(* C8: every task record in a ready list, the scheduled set, the processing
   set or the failed list, and every task a worker holds, has
   retry_count <= max_retries. *)
C8_RetryCountBounded ==
    \A m \in AllStored \cup (AllHeld \ {NoTask}) :
        m.retry_count <= m.max_retries

(* C8 witness: a task that has used its whole retry budget of 3 is back in a
   ready list. *)
C8_Witness ==
    \E m \in ReadyMembers(ready["webhooks"]) :
        m.max_retries = 3 /\ m.retry_count = 3

Live == (1 .. (next_id - 1)) \ completed

Places(id) ==
    LET In(set) == IF id \in Ids(set) THEN 1 ELSE 0
        Sum4(a, b, c, d) == a + b + c + d
    IN  [q \in QueueNames |->
            In(scheduled[q]) + In(processing[q]) + In(Members(failed[q]))
              + Sum4(In(Members(ready[q]["critical"])),
                     In(Members(ready[q]["high"])),
                     In(Members(ready[q]["normal"])),
                     In(Members(ready[q]["low"])))]

Copies(id) ==
    LET N(list) == Cardinality({i \in 1 .. Len(list) : list[i].id = id})
    IN  [q \in QueueNames |->
            N(ready[q]["critical"]) + N(ready[q]["high"])
              + N(ready[q]["normal"]) + N(ready[q]["low"])]

(* C9: in every reachable state, also between two store commands of dequeue,
   of the sweep and of fail_task, each task that has been enqueued and not
   completed is recorded in exactly one of: the scheduled set, one ready
   list, the processing set, the failed list of its queue. *)
C9_ExactlyOneLocation ==
    \A id \in Live :
        /\ Places(id)["webhooks"] + Places(id)["notifications"] = 1
        /\ Copies(id)["webhooks"] + Copies(id)["notifications"] <= 1

(* C10: with workers calling dequeue concurrently, every scheduled entry that
   is due is pushed to its ready list by the sweep exactly once in total: no
   entry is pushed a second time. *)
C10_SweptOnce == \A m \in DOMAIN swept : swept[m] <= 1

Held(w) == {task[w].id, task_data[w].id} \ {0}

Invokes(w) == pc[w] = "process" /\ pc'[w] # "process"

(* C11: with two worker loops on one queue, a task that was enqueued once
   with no delay is handed by the blocking pop to one worker only: when a
   worker pops its record no other worker holds the task, the task has not
   been processed or put in the processing set before, and no copy of it is
   left in a ready list; so the first invocation of its processor is the
   only one for that record. *)
C11_ExclusivePop ==
    [][\A w \in Workers :
          /\ (Pops(w) /\ Fresh(task_data'[w])) =>
                 LET id == task_data'[w].id
                 IN  /\ \A v \in Workers \ {w} : id \notin Held(v)
                     /\ id \notin DOMAIN attempts
                     /\ id \notin Ids(processing[wqueue[w]])
                     /\ id \notin Ids(ReadyMembers(ready'[wqueue[w]]))
          /\ (Invokes(w) /\ Fresh(task[w])) =>
                 /\ attempts'[task[w].id] = 1
                 /\ \A v \in Workers \ {w} : task[w].id \notin Held(v)]_vars

(* C11 witness: one worker has popped a task enqueued with no delay while
   the other worker, inside its own dequeue call, waits on the same list,
   which is now empty. *)
C11_Witness ==
    \E w \in Workers : \E v \in Workers \ {w} :
        /\ pc[w] = "sadd"
        /\ Fresh(task_data[w])
        /\ pc[v] = "brpop"
        /\ wqueue[v] = wqueue[w]
        /\ PriorityOrder[prio[v]] = task_data[w].priority
        /\ BrpopList(v) = <<>>

Delayed(m) == m.retry_count > 0 \/ m.scheduled_at > m.created_at

ReturnsNone(w) == pc[w] = "brpop" /\ pc'[w] = "loop"

(* what is left in the scheduled set, when a dequeue call returns, of the
   entries that were due when the call began *)
LeftBehind(w) ==
    (Pops(w) \/ ReturnsNone(w)) =>
        \A m \in scheduled'[wqueue[w]] : m.scheduled_at > call_start[w]

(* C12, as claimed: a task enqueued with a delay, or rescheduled by
   fail_task, is returned only by a dequeue call that began when the clock
   had reached the task's scheduled_at, and a dequeue call that begins
   after that time leaves no such task in the scheduled set. *)
C12_DelayedVisibility ==
    [][\A w \in Workers :
          /\ (Pops(w) /\ Delayed(task_data'[w])) =>
                 task_data'[w].scheduled_at <= call_start[w]
          /\ LeftBehind(w)]_vars

(* C12, amended: a task enqueued with a delay, or rescheduled by fail_task,
   is moved to a ready list and returned by dequeue only when the clock has
   reached its scheduled_at (the dequeue call that returns it may have begun
   earlier: it can be handed the task while it waits in its blocking pop),
   and a dequeue call that begins after that time leaves no such task in the
   scheduled set: the task is put at the pushing end of the ready list of
   its priority. *)
C12_VisibleWhenDue ==
    [][\A w \in Workers :
          /\ (Pops(w) /\ Delayed(task_data'[w])) =>
                 task_data'[w].scheduled_at <= now
          /\ Leaves(w, "lpush") =>
                 LET m == Head(ready_tasks[w])
                 IN  /\ m.scheduled_at <= now
                     /\ m.scheduled_at <= call_start[w]
                     /\ ready'[wqueue[w]][m.priority]
                            = <<m>> \o ready[wqueue[w]][m.priority]
          /\ LeftBehind(w)]_vars

(* C12 witness: a task enqueued with delay_seconds = DelaySeconds has been
   returned by the blocking pop, DelaySeconds after it was created. *)
C12_Witness ==
    \E w \in Workers :
        /\ pc[w] = "sadd"
        /\ task_data[w].retry_count = 0
        /\ task_data[w].scheduled_at = task_data[w].created_at + DelaySeconds
        /\ now = task_data[w].scheduled_at
        /\ scheduled[wqueue[w]] = {}

(* the members of a list in the order in which the blocking pop returns them *)
RECURSIVE PopAll(_)
PopAll(list) ==
    IF list = <<>> THEN <<>>
    ELSE <<BRPop(list).member>> \o PopAll(BRPop(list).rest)

(* one record of task id, due later than now, is added to the scheduled set
   of its queue and nothing else is added anywhere *)
ToScheduled(id) ==
    /\ ready' = ready
    /\ \E q \in QueueNames :
          /\ \A o \in QueueNames \ {q} : scheduled'[o] = scheduled[o]
          /\ \E r \in scheduled'[q] :
                 /\ r \notin scheduled[q]
                 /\ scheduled'[q] = scheduled[q] \cup {r}
                 /\ r.id = id /\ r.queue_name = q
                 /\ r.scheduled_at > now

(* one record of task id, due now, is added to the ready list of its queue
   and priority, at the end from which it is popped last *)
ToReady(id) ==
    /\ scheduled' = scheduled
    /\ \E q \in QueueNames : \E p \in Priorities :
          LET old == ready[q][p]
              new == ready'[q][p]
          IN  /\ \A o \in QueueNames : \A x \in Priorities :
                     <<o, x>> # <<q, p>> => ready'[o][x] = ready[o][x]
              /\ Len(new) = Len(old) + 1
              /\ \E r \in Members(new) \ Members(old) :
                     /\ PopAll(new) = PopAll(old) \o <<r>>
                     /\ r.id = id /\ r.queue_name = q /\ r.priority = p
                     /\ r.scheduled_at = now
                     /\ r.id \notin Ids(Members(old))

(* C13: a call of enqueue adds exactly one record of the task: to the
   scheduled set of the task's queue when delay_seconds > 0 (the record is
   then due later than now; so is every task that fail_task re-enqueues), and
   otherwise to the ready list of the task's queue and priority, at the end
   that is popped last; never to both, and the processing sets and the failed
   lists are left as they were. *)
C13_EnqueueRouting ==
    [][/\ next_id' # next_id =>
              /\ ToScheduled(next_id) \/ ToReady(next_id)
              /\ ~(ToScheduled(next_id) /\ ToReady(next_id))
              /\ processing' = processing
              /\ failed' = failed
       /\ \A w \in Workers : Leaves(w, "retry") =>
              /\ RetryTask(task[w]).delay_seconds > 0
              /\ ToScheduled(task[w].id)
              /\ ~ToReady(task[w].id)
              /\ processing' = processing
              /\ failed' = failed]_vars

(* C13 witness: two tasks enqueued with no delay wait in one ready list,
   the one enqueued last at the pushing end, and a task that fail_task has
   re-enqueued is in the scheduled set and in no ready list. *)
C13_Witness ==
    \E p \in Priorities : \E m \in scheduled["webhooks"] :
        LET l == ready["webhooks"][p]
        IN  /\ Len(l) = 2
            /\ Fresh(l[1]) /\ Fresh(l[2])
            /\ l[1].id > l[2].id
            /\ m.retry_count = 1
            /\ m.id \notin Ids(ReadyMembers(ready["webhooks"]))

InLoop ==
    {"loop", "sweep", "zrem", "lpush", "brpop", "sadd", "process", "complete",
     "fail", "retry", "dead"}

(* C15: no step of a worker that is inside its loop takes it out of the
   loop, whether a store command raises or the processor does, except the
   loop test that finds the running flag cleared; a processor that raises
   takes the worker to fail_task; from fail_task, from a failed command and
   from any other place in the loop the worker comes back to the loop test,
   and the loop test starts the next dequeue unless the running flag has
   been cleared. *)
C15_LoopSurvives ==
    /\ [][\A w \in Workers :
              /\ pc[w] \in InLoop => pc'[w] \in InLoop \cup {"stopped"}
              /\ (pc[w] = "loop" /\ pc'[w] # "loop") =>
                     pc'[w] = IF running THEN "sweep" ELSE "stopped"
              /\ pc'[w] = "stopped" => pc[w] \in {"loop", "stopped"}
              /\ (Invokes(w) /\ outcome'[task[w].id] \in profile.errors) =>
                     pc'[w] = "fail"]_vars
    /\ \A w \in Workers :
           (pc[w] \in InLoop \ {"loop"}) ~> (pc[w] = "loop")

(* C15 witness: the processor of task 1 raised, and the worker, still
   running, has dequeued task 2 and is about to process it. *)
C15_Witness ==
    /\ running
    /\ pc["w1"] = "process"
    /\ task["w1"].id = 2
    /\ 1 \in DOMAIN outcome
    /\ outcome[1] = "boom"
    /\ 2 \notin DOMAIN attempts

(* an enqueue call of a producer that returned False changed no region *)
FailedEnqueueNoEffect ==
    (next_id' # next_id /\ next_id \notin accepted') =>
        /\ ready' = ready
        /\ scheduled' = scheduled
        /\ processing' = processing
        /\ failed' = failed

(* no store error goes past the method in which it occurs: the worker that
   called the method is still in its loop afterwards *)
NotPropagated ==
    \A w \in Workers : pc[w] \in InLoop => pc'[w] \in InLoop \cup {"stopped"}

(* a dequeue call in which a store command raised returns None, not a task *)
DequeueNoneAfterError ==
    \A w \in Workers : (pc[w] = "sadd" /\ pc'[w] = "process") => ~raised[w]

(* C14: a store command that fails inside enqueue, dequeue, complete_task
   or fail_task is not propagated, and the method returns its failure
   value: an enqueue that returned False has changed no region of the
   queue, and a dequeue call in which a store command failed returns None. *)
C14_FailuresReported ==
    [][FailedEnqueueNoEffect /\ NotPropagated /\ DequeueNoneAfterError]_vars

(* C16: a worker loop that was running when stop_worker was called starts
   no dequeue call after that (its loop test is not passed again), and when
   it exits it holds no task: whatever it had dequeued has gone through
   complete_task or fail_task. *)
C16_GracefulStop ==
    [][\A w \in Workers :
          /\ w \in halted => ~(pc[w] = "loop" /\ pc'[w] = "sweep")
          /\ (pc[w] # "stopped" /\ pc'[w] = "stopped") =>
                 /\ pc[w] = "loop"
                 /\ Held(w) = {}
                 /\ w \in halted]_vars

Unregistered(t) == t.task_type \notin task_processors

(* C17: a dequeued task whose task_type has no registered processor is
   handed to fail_task with the "no processor" message in every processing
   cycle and never to complete_task; with max_retries = N its first N cycles
   reschedule it with the delays 120, 240, ... of the backoff, and cycle
   N + 1 puts it in the failed list with retry_count = N and that message. *)
C17_MissingProcessor ==
    [][\A w \in Workers :
          LET t == task[w]
              q == t.queue_name
          IN  /\ (Invokes(w) /\ Unregistered(t)) =>
                     /\ pc'[w] = "fail"
                     /\ error'[w]
                            = "No processor for task type: " \o t.task_type
                     /\ attempts'[t.id] = t.retry_count + 1
              /\ Leaves(w, "complete") => ~Unregistered(t)
              /\ (Leaves(w, "retry") /\ Unregistered(t)) =>
                     /\ attempts[t.id] <= t.max_retries
                     /\ \E m \in scheduled'[q] \ scheduled[q] :
                            /\ m.id = t.id
                            /\ m.retry_count = attempts[t.id]
                            /\ m.scheduled_at
                                   = now + ClaimedDelay(attempts[t.id])
              /\ (Leaves(w, "dead") /\ Unregistered(t)) =>
                     /\ attempts[t.id] = t.max_retries + 1
                     /\ Len(DelaysOf(t.id)) = t.max_retries
                     /\ Head(failed'[q]).id = t.id
                     /\ Head(failed'[q]).retry_count = t.max_retries
                     /\ Head(failed'[q]).error_message
                            = "No processor for task type: " \o t.task_type
                     /\ t.id \notin completed]_vars

(* C17 witness: a task of a type without processor and with max_retries = 1
   is in the failed list after two processing cycles and one retry, 120 s
   after the first cycle. *)
C17_Witness ==
    \E f \in AllFailed :
        /\ Unregistered(f)
        /\ f.max_retries = 1
        /\ f.retry_count = 1
        /\ attempts[f.id] = 2
        /\ delays[f.id] = <<120>>
        /\ f.error_message = "No processor for task type: whatsapp.send_message"
        /\ f.scheduled_at = f.created_at + 120
        /\ f.id \notin completed

StatsTotal(stats) ==
    stats.critical_count + stats.high_count + stats.normal_count
      + stats.low_count + stats.scheduled_count + stats.processing_count
      + stats.failed_count

(* no call of dequeue or fail_task is between two of its store commands *)
BetweenOperations ==
    \A w \in Workers :
        pc[w] \in {"idle", "loop", "sweep", "process", "complete", "fail",
                   "stopped"}

(* every producer of a run enqueues on the one queue of the run *)
EnqueuedOn(q) == IF profile.queues = {q} THEN accepted ELSE {}

(* C18: with one worker loop and a store that does not fail, whenever no
   dequeue or fail_task call is under way, the seven counts that
   get_queue_stats returns for a queue add up to the number of tasks whose
   enqueue on that queue returned True minus the number of tasks that
   complete_task has removed. *)
C18_StatsConsistency ==
    BetweenOperations =>
        \A q \in QueueNames :
            StatsTotal(GetQueueStats(q))
                = Cardinality(EnqueuedOn(q))
                    - Cardinality(EnqueuedOn(q) \cap completed)

(* C18 witness: of three tasks enqueued, one is completed, one is in the
   failed list and one waits in the scheduled set for its retry; the counts
   add up to 2. *)
C18_Witness ==
    /\ BetweenOperations
    /\ Cardinality(accepted) = 3
    /\ Cardinality(completed) = 1
    /\ GetQueueStats("webhooks").failed_count = 1
    /\ GetQueueStats("webhooks").scheduled_count = 1
    /\ StatsTotal(GetQueueStats("webhooks")) = 2

(* C19: complete_task returns normally whether or not the task is in the
   processing set; afterwards the task's record is not in the processing
   set of its queue, nothing else has left or entered that set, and the
   ready lists, the scheduled sets and the failed lists are as before; so a
   call for a task that is no longer in the processing set changes nothing,
   and a second call adds nothing to the first. *)
C19_IdempotentComplete ==
    [][\A w \in Workers : Leaves(w, "complete") =>
          LET t == task[w]
              q == t.queue_name
              d == [id |-> t.id, queue_name |-> q, task_type |-> t.task_type,
                    priority |-> t.priority, max_retries |-> t.max_retries,
                    retry_count |-> t.retry_count,
                    created_at |-> t.created_at,
                    scheduled_at |-> t.scheduled_at]
          IN  /\ pc'[w] = "loop"
              /\ task'[w] = NoTask
              /\ processing'[q] = processing[q] \ {d}
              /\ d \notin processing[q] => processing' = processing
              /\ \A o \in QueueNames \ {q} : processing'[o] = processing[o]
              /\ ready' = ready
              /\ scheduled' = scheduled
              /\ failed' = failed]_vars

(* C19 witness: complete_task has been called for a task whose record
   another call of complete_task had already removed from the processing
   set, and has left the regions as they were. *)
C19_Witness ==
    \E id \in recompleted :
        /\ id \in completed
        /\ id \notin Ids(processing["webhooks"])
        /\ \A w \in Workers : pc[w] \in {"loop", "sweep", "brpop", "stopped"}

(* C20: no task with an empty queue_name or an empty task_type is ever in a
   region of the store or in the hands of a worker: the construction of such
   a task is rejected. *)
C20_NoEmptyNames ==
    \A m \in AllStored \cup (AllHeld \ {NoTask}) :
        m.queue_name # "" /\ m.task_type # ""

----------------------------------------------------------------------------
(* Queue namespaces *)

KeyNames == QueueNames \cup {"webhooks:low", "low", "scheduled"}

RegionKeys(q) ==
    {QueueKey(q, p) : p \in Priorities}
        \cup {ScheduledKey(q), ProcessingKey(q), FailedKey(q)}

(* no two regions have the same key: the keys of two queue names are
   disjoint, and the seven keys of one queue name are seven keys *)
KeysDistinct ==
    \A a \in KeyNames :
        /\ Cardinality(RegionKeys(a)) = Cardinality(Priorities) + 3
        /\ \A b \in KeyNames \ {a} : RegionKeys(a) \cap RegionKeys(b) = {}

Untouched(q) ==
    /\ ready'[q] = ready[q]
    /\ scheduled'[q] = scheduled[q]
    /\ processing'[q] = processing[q]
    /\ failed'[q] = failed[q]
    /\ GetQueueStats(q)' = GetQueueStats(q)

(* every record in a region of queue q, or taken from it, names q *)
RegionsNamed ==
    /\ \A q \in QueueNames :
           \A m \in ReadyMembers(ready[q]) \cup scheduled[q] \cup processing[q]
                       \cup Members(failed[q]) : m.queue_name = q
    /\ \A w \in Workers :
           \A m \in ({task[w], task_data[w]} \ {NoTask})
                       \cup Members(ready_tasks[w]) : m.queue_name = wqueue[w]

(* C21: the keys of the regions of different queue names are different
   keys; every record is in a region of the queue it names; and every step
   of enqueue, of dequeue and its sweep, of complete_task and of fail_task
   changes regions of the one queue it is applied to: the ready lists, the
   scheduled set, the processing set, the failed list and the counts of
   get_queue_stats of every other queue are as before. *)
C21_QueueIsolation ==
    /\ KeysDistinct
    /\ []RegionsNamed
    /\ [][/\ \A w \in Workers : pc'[w] # pc[w] =>
                 \A q \in QueueNames \ {wqueue'[w]} : Untouched(q)
          /\ \A w \in Workers :
                 (pc'[w] # pc[w] /\ task[w] # NoTask) =>
                     \A q \in QueueNames \ {task[w].queue_name} : Untouched(q)
          /\ next_id' # next_id =>
                 \E a \in QueueNames :
                     /\ next_id \in Ids(ReadyMembers(ready'[a]) \cup scheduled'[a])
                     /\ \A q \in QueueNames \ {a} : Untouched(q)]_vars

(* C21 witness: the worker of queue "webhooks" has dequeued a task, seen it
   fail and put it in the failed list, while a task enqueued before that on
   queue "notifications" still waits in its ready list. *)
C21_Witness ==
    /\ wqueue["w1"] = "webhooks"
    /\ pc["w1"] = "loop"
    /\ GetQueueStats("webhooks").failed_count = 1
    /\ Head(failed["webhooks"]).id = 2
    /\ StatsTotal(GetQueueStats("notifications")) = 1
    /\ 1 \in Ids(ReadyMembers(ready["notifications"]))

----------------------------------------------------------------------------
(* Producers that never stop.  A producer builds the id of a task from the
   time of its construction (webhooks.py:84), and the model numbers the
   tasks; a producer that goes on enqueuing takes, for its new task, the
   number of a task that was completed and of which no record is left
   anywhere, and what the history variables hold about that number is
   dropped.  A run then has finitely many states although it can have
   infinitely many enqueue calls. *)

MaxTasksStream == 2

(* one worker loop that is never short of producers *)
Stream ==
    [workers |-> {"w1"}, tasks |-> MaxTasksStream, early |-> FALSE,
     inputs |-> {[task_type |-> "webhook.process", max_retries |-> 0,
                  delay_seconds |-> 0],
                 [task_type |-> "whatsapp.send_message", max_retries |-> 1,
                  delay_seconds |-> 0]},
     errors |-> {"boom"}, queues |-> {"webhooks"}]

InitStream == InitWith(Stream)

Forget(f, id) == [x \in DOMAIN f \ {id} |-> f[x]]

Gone(id) == id \notin Ids(AllStored) \cup Ids(AllHeld)

ProducerEnqueueAgain ==
    /\ \E id \in completed :
          /\ Gone(id)
          /\ \E q \in profile.queues, p \in Priorities, i \in profile.inputs :
                Enqueue(QueueTask(id, q, i.task_type, p, i.max_retries,
                                  i.delay_seconds))
          /\ completed' = completed \ {id}
          /\ recompleted' = recompleted \ {id}
          /\ attempts' = Forget(attempts, id)
          /\ outcome' = Forget(outcome, id)
          /\ delays' = Forget(delays, id)
    /\ UNCHANGED <<now, processing, failed, running, pc, wqueue, ready_tasks,
                   prio, task_data, task, error, profile, next_id, last_pop,
                   swept, call_start, halted, accepted, raised, fail_result,
                   rate_vars>>

NextStream ==
    \/ Next
    \/ ProducerEnqueueAgain

(* the event loop schedules every coroutine that can take a step, and the
   clock reaches every time at which a scheduled entry falls due *)
SpecStream ==
    /\ InitStream
    /\ [][NextStream]_vars
    /\ \A w \in Workers : WF_vars(WorkerStep(w))
    /\ WF_vars(Tick)

Terminal(id) == id \in completed \/ id \in Ids(AllFailed)

(* C22: when a worker loop is running on the queue and is not stopped, the
   store does not fail, every processor invocation ends and the clock
   advances, every task whose enqueue returned True is eventually completed
   or recorded in the failed list. *)
C22_EveryTaskTerminates ==
    (<>[]running) =>
        \A id \in 1 .. MaxTasksStream : (id \in accepted) ~> Terminal(id)

----------------------------------------------------------------------------
(* The processing cycle *)

InComplete == {"complete"}

InFail == {"fail", "retry", "dead"}

Registered(t) == t.task_type \in task_processors

(* C23: a worker enters _process_task only with a task that dequeue has
   returned; the step that ends the processor lookup and invocation calls
   complete_task when a processor is registered and has returned normally,
   and calls fail_task, with the message of the error, when no processor is
   registered or the invocation has raised, and nothing else; the worker is
   in complete_task or fail_task only from there, never goes from one into
   the other, and goes from either back to the loop test. *)
C23_ExactlyOneOutcome ==
    [][\A w \in Workers :
          LET t == task[w]
          IN  /\ (pc[w] # "process" /\ pc'[w] = "process") =>
                     /\ pc[w] = "sadd"
                     /\ task'[w] = DictToTask(task_data[w])
              /\ Invokes(w) =>
                     /\ pc'[w] \in InComplete \cup {"fail"}
                     /\ task'[w] = t
                     /\ pc'[w] = "complete" <=>
                            (Registered(t) /\ outcome'[t.id] = "returned")
                     /\ pc'[w] = "fail" <=>
                            (~Registered(t) \/ outcome'[t.id] \in profile.errors)
                     /\ pc'[w] = "fail" =>
                            /\ error'[w] = outcome'[t.id]
                            /\ ~Registered(t) =>
                                   error'[w] = "No processor for task type: "
                                                   \o t.task_type
              /\ (pc[w] \notin InComplete /\ pc'[w] \in InComplete) =>
                     pc[w] = "process"
              /\ (pc[w] \notin InFail /\ pc'[w] \in InFail) =>
                     pc[w] = "process"
              /\ (pc[w] \in InComplete /\ pc'[w] \notin InComplete) =>
                     pc'[w] = "loop" /\ task'[w] = NoTask
              /\ (pc[w] \in InFail /\ pc'[w] \notin InFail) =>
                     pc'[w] = "loop" /\ task'[w] = NoTask
              /\ (pc[w] = "loop" /\ pc'[w] # "loop") => t = NoTask]_vars

(* C23 witness: a task whose first cycle ended in fail_task, which
   rescheduled it, has been through a second cycle, 120 s later, that ended
   in complete_task. *)
C23_Witness ==
    \E id \in completed :
        /\ attempts[id] = 2
        /\ outcome[id] = "returned"
        /\ id \in DOMAIN delays
        /\ delays[id] = <<120>>
        /\ now = 120
        /\ pc["w1"] = "loop"
        /\ error["w1"] = ""

----------------------------------------------------------------------------
(* The sweep inside dequeue *)

Due(q, t) == {m \in scheduled[q] : m.scheduled_at <= t}

NotDue(q, t) == {m \in scheduled[q] : m.scheduled_at > t}

DueAfter(q, t) == {m \in scheduled'[q] : m.scheduled_at <= t}

InDequeue == {"sweep", "zrem", "lpush", "brpop", "sadd"}

(* C24: a dequeue call begins with the sweep: it reads the entries of the
   scheduled set of its queue with scheduled_at <= now, all of them and no
   others, then removes each from the scheduled set and pushes it to the
   ready list of the priority recorded in the entry, and only then goes to
   its first blocking pop, when no entry that was due at the begin of the
   call is left in the scheduled set; no step of the call removes or changes
   an entry that was not due. *)
C24_SweepFirst ==
    [][\A w \in Workers :
          LET q == wqueue[w]
          IN  /\ Leaves(w, "sweep") =>
                     /\ Members(ready_tasks'[w]) = Due(q, now)
                     /\ Len(ready_tasks'[w]) = Cardinality(Due(q, now))
                     /\ call_start'[w] = now
                     /\ pc'[w] = IF Due(q, now) = {} THEN "brpop" ELSE "zrem"
                     /\ scheduled' = scheduled /\ ready' = ready
              /\ Leaves(w, "zrem") =>
                     /\ Head(ready_tasks[w]).scheduled_at <= call_start[w]
                     /\ scheduled'[q] = scheduled[q] \ {Head(ready_tasks[w])}
                     /\ pc'[w] = "lpush"
              /\ Leaves(w, "lpush") =>
                     LET m == Head(ready_tasks[w])
                     IN  /\ ready' = [ready EXCEPT ![q][m.priority] = <<m>> \o @]
                         /\ m \notin scheduled'[q]
                         /\ pc'[w] = IF Len(ready_tasks[w]) = 1 THEN "brpop"
                                     ELSE "zrem"
              /\ (pc[w] # "brpop" /\ pc'[w] = "brpop") =>
                     /\ pc[w] \in {"sweep", "lpush"}
                     /\ prio'[w] = 1
                     /\ DueAfter(q, call_start'[w]) = {}
              /\ Pops(w) => Due(q, call_start[w]) = {}
              /\ (pc[w] \in InDequeue /\ pc'[w] # pc[w]) =>
                     /\ NotDue(q, call_start'[w]) \subseteq scheduled'[q]
                     /\ pc[w] # "sweep" =>
                            NotDue(q, call_start[w]) \subseteq scheduled'[q]]_vars

(* C24 witness: a dequeue call that began at time 120, when one scheduled
   entry was due and another was not, has moved the due one to its ready list
   and popped it, and the other is still in the scheduled set. *)
C24_Witness ==
    \E w \in Workers :
        /\ pc[w] = "sadd"
        /\ call_start[w] = 120
        /\ task_data[w].scheduled_at = 120
        /\ task_data[w].retry_count = 1
        /\ Count(swept, task_data[w]) = 1
        /\ \E m \in scheduled[wqueue[w]] : m.scheduled_at = 240

----------------------------------------------------------------------------
(* The pops of dequeue *)

(* the run of SpecRetries under an event loop that schedules every coroutine
   that can take a step, and a clock that reaches every due time *)
SpecLive ==
    /\ InitRetries
    /\ [][Next]_vars
    /\ \A w \in Workers : WF_vars(WorkerStep(w))
    /\ WF_vars(Tick)

PopAttempt(w) == pc[w] = "brpop" /\ (pc'[w] # "brpop" \/ prio'[w] # prio[w])

(* C25: every dequeue call returns.  After the sweep it makes its pop
   attempts in the order CRITICAL, HIGH, NORMAL, LOW, at most one for each:
   an attempt that finds nothing is followed by the attempt on the next
   lower list, or, after the fourth, by the return of None; the first
   attempt that finds a member takes it from the popping end of its list,
   makes no further attempt, adds the member to the processing set of the
   queue and returns it as a task. *)
C25_DequeueTerminates ==
    /\ PriorityOrder = <<"critical", "high", "normal", "low">>
    /\ [][\A w \in Workers :
              LET q == wqueue[w]
                  p == PriorityOrder[prio[w]]
              IN  /\ pc[w] = "brpop" => prio[w] \in 1 .. 4
                  /\ (pc[w] # "brpop" /\ pc'[w] = "brpop") => prio'[w] = 1
                  /\ PopAttempt(w) =>
                         IF ready[q][p] = <<>>
                         THEN /\ ready' = ready /\ processing' = processing
                              /\ IF prio[w] < 4
                                 THEN pc'[w] = "brpop" /\ prio'[w] = prio[w] + 1
                                 ELSE pc'[w] = "loop" /\ task'[w] = NoTask
                         ELSE /\ pc'[w] = "sadd"
                              /\ task_data'[w] = ready[q][p][Len(ready[q][p])]
                              /\ ready' = [ready EXCEPT ![q][p] =
                                              SubSeq(@, 1, Len(@) - 1)]
                              /\ task_data'[w].priority = p
                  /\ Leaves(w, "sadd") =>
                         /\ pc'[w] = "process"
                         /\ ready' = ready
                         /\ processing'[q] = processing[q] \cup {task_data[w]}
                         /\ task'[w].id = task_data[w].id
                         /\ task'[w].id \in Ids(processing'[q])
                         /\ task'[w].id \notin Ids(ReadyMembers(ready'[q]))]_vars
    /\ \A w \in Workers : (pc[w] \in InDequeue) ~> (pc[w] \notin InDequeue)

(* C25 witness: a dequeue call has found the lists CRITICAL, HIGH and
   NORMAL empty and has popped, in its fourth attempt, a task from the list
   LOW that its own sweep had pushed there. *)
C25_Witness ==
    \E w \in Workers :
        /\ pc[w] = "sadd"
        /\ prio[w] = 4
        /\ task_data[w].priority = "low"
        /\ task_data[w].scheduled_at = call_start[w]
        /\ Count(swept, task_data[w]) = 1
        /\ ReadyMembers(ready[wqueue[w]]) = {}

----------------------------------------------------------------------------
(* Store failures in the middle of an operation *)

(* C26: whatever store command fails, every task whose enqueue returned
   True and that has not been completed is recorded in a ready list, the
   scheduled set, the processing set or the failed list, or is held by a
   worker (as the task dequeue returned, the member it popped, or an entry
   its sweep is moving). *)
C26_NoTaskLost ==
    \A id \in accepted \ completed : id \in Ids(AllStored) \cup Ids(AllHeld)

----------------------------------------------------------------------------
(* stop_worker before the first step of a worker.  start_worker returns only
   when its loop ends, so a caller runs it as a task of its own
   (asyncio.create_task), and the coroutine takes its first step, which sets
   the running flag, when the event loop schedules it.  In these runs the
   start_worker call of every worker of the run has been issued in the
   initial state, and pc[w] = "idle" until its first step; stop_worker can
   be called before that, when the flag is still False. *)

StopWorkerEarly ==
    /\ ~running
    /\ \E w \in profile.workers : pc[w] = "idle"
    /\ halted' = halted \cup {w \in profile.workers : pc[w] = "idle"}
    /\ UNCHANGED <<now, ready, scheduled, processing, failed, running, pc,
                   wqueue, ready_tasks, prio, task_data, task, error, profile,
                   accepted, raised, call_start, recompleted, next_id,
                   attempts, completed, batch, last_pop, swept, delays,
                   outcome, fail_result, rate_vars>>

NextStops ==
    \/ Next
    \/ StopWorkerEarly

SpecStops ==
    /\ InitRetries
    /\ [][NextStops]_vars
    /\ \A w \in Workers : WF_vars(WorkerStep(w))
    /\ WF_vars(Tick)

(* C27: every worker loop whose start_worker call came before a call of
   stop_worker eventually exits, also when that stop_worker call ran before
   the first step of the worker. *)
C27_StopWins ==
    \A w \in Workers : (w \in halted) ~> (pc[w] = "stopped")

----------------------------------------------------------------------------
(* Entries of the scheduled set and of the processing set *)

Size(set) == Cardinality(set)

(* C28: every enqueue of a task with delay_seconds > 0 that returns True,
   by a producer or by fail_task, makes the scheduled set of the task's
   queue larger by one entry, and every dequeue that returns a task makes
   the processing set of its queue larger by one entry, also when an equal
   record is already there. *)
C28_OneEntryEach ==
    [][/\ (next_id' # next_id /\ next_id \in accepted'
              /\ ready' = ready) =>
              \E q \in QueueNames : Size(scheduled'[q]) = Size(scheduled[q]) + 1
       /\ \A w \in Workers :
              /\ (Leaves(w, "retry") /\ ready' = ready) =>
                     Size(scheduled'[task[w].queue_name])
                         = Size(scheduled[task[w].queue_name]) + 1
              /\ (pc[w] = "sadd" /\ pc'[w] = "process") =>
                     Size(processing'[wqueue[w]])
                         = Size(processing[wqueue[w]]) + 1]_vars

----------------------------------------------------------------------------
(* The return value of fail_task *)

FailReturns(w) == pc[w] \in InFail /\ pc'[w] = "loop"

Rescheduled(w) ==
    \E m \in scheduled'[task[w].queue_name] :
        /\ m.id = task[w].id
        /\ m.retry_count = task[w].retry_count + 1
        /\ m.scheduled_at > now

MovedToFailed(w) ==
    /\ Len(failed'[task[w].queue_name]) = Len(failed[task[w].queue_name]) + 1
    /\ Head(failed'[task[w].queue_name]).id = task[w].id

(* C29: fail_task returns True exactly when it has put the task, with its
   retry_count raised by one, in the scheduled set; it returns False when it
   has pushed the task to the failed list, and also when a store command of
   it has raised, in which case the task is neither rescheduled nor in the
   failed list. *)
C29_FailReturnValue ==
    [][\A w \in Workers : FailReturns(w) =>
          /\ fail_result'[w] = TRUE <=> Rescheduled(w)
          /\ fail_result'[w] = FALSE <=> ~Rescheduled(w)
          /\ fail_result'[w] = FALSE =>
                 \/ MovedToFailed(w) /\ scheduled' = scheduled
                 \/ failed' = failed /\ scheduled' = scheduled
          /\ MovedToFailed(w) =>
                 /\ task[w].retry_count >= task[w].max_retries
                 /\ fail_result'[w] = FALSE]_vars

(* C29 witness: two calls of fail_task have returned False: the task of
   one is in the failed list, and the task of the other, whose store command
   raised, is in no region. *)
C29_Witness ==
    \E a \in accepted : \E b \in accepted \ {a} :
        /\ pc["w1"] = "loop"
        /\ fail_result["w1"] = FALSE
        /\ a \in Ids(Members(failed["webhooks"]))
        /\ b \notin Ids(AllStored) \cup Ids(AllHeld) \cup completed
        /\ b \in DOMAIN attempts
        /\ attempts[b] = 1
        /\ outcome[b] # "returned"

----------------------------------------------------------------------------
(* RateLimitMiddleware.dispatch (src/src/core/middleware.py).  One step is
   one store command.  The requests of the model are handled by different
   server processes on one store, so that the commands of two requests
   interleave; the store deletes a key when its time to live has run out,
   at any moment between two commands. *)

RateLimitCalls == 2

RateLimitPeriod == 2

NoExpiry == 0 - 1

Paths == {"/health", "/api/orders"}

SkippedPaths == {"/health", "/", "/docs", "/redoc"}

(* GET: the value of the key, 0 for None *)
Get(ip) == rate_limit[ip]

(* SETEX key period 1 *)
SetEx(ip, seconds, value) ==
    /\ rate_limit' = [rate_limit EXCEPT ![ip] = value]
    /\ ttl' = [ttl EXCEPT ![ip] = seconds]

(* INCR: a key that does not exist is created with the value 1 and without
   an expiry; the expiry of a key that exists is left as it is *)
Incr(ip) ==
    /\ rate_limit' = [rate_limit EXCEPT ![ip] = @ + 1]
    /\ ttl' = [ttl EXCEPT ![ip] = IF rate_limit[ip] = 0 THEN NoExpiry ELSE @]

(* a request arrives; the paths of the skip list go to call_next at once *)
Dispatch(r) ==
    /\ rpc[r] = "idle"
    /\ \E ip \in Clients : client_ip' = [client_ip EXCEPT ![r] = ip]
    /\ \E path \in Paths :
          rpc' = [rpc EXCEPT ![r] = IF path \in SkippedPaths THEN "call_next"
                                    ELSE "get"]
    /\ UNCHANGED <<rate_limit, ttl, current_calls, response>>
    /\ UNCHANGED queue_vars

(* current_calls = self.redis.get(key), and the tests on it: rejected with
   429 when the limit is reached *)
RateLimitGet(r) ==
    /\ rpc[r] = "get"
    /\ current_calls' = [current_calls EXCEPT ![r] = Get(client_ip[r])]
    /\ IF Get(client_ip[r]) = 0
       THEN rpc' = [rpc EXCEPT ![r] = "setex"] /\ UNCHANGED response
       ELSE IF Get(client_ip[r]) >= RateLimitCalls
            THEN /\ rpc' = [rpc EXCEPT ![r] = "idle"]
                 /\ response' = [response EXCEPT ![r] = 429]
            ELSE rpc' = [rpc EXCEPT ![r] = "incr"] /\ UNCHANGED response
    /\ UNCHANGED <<rate_limit, ttl, client_ip>>
    /\ UNCHANGED queue_vars

RateLimitSetex(r) ==
    /\ rpc[r] = "setex"
    /\ SetEx(client_ip[r], RateLimitPeriod, 1)
    /\ rpc' = [rpc EXCEPT ![r] = "call_next"]
    /\ UNCHANGED <<client_ip, current_calls, response>>
    /\ UNCHANGED queue_vars

RateLimitIncr(r) ==
    /\ rpc[r] = "incr"
    /\ Incr(client_ip[r])
    /\ rpc' = [rpc EXCEPT ![r] = "call_next"]
    /\ UNCHANGED <<client_ip, current_calls, response>>
    /\ UNCHANGED queue_vars

(* a store command raises redis.RedisError: logged, the request goes on *)
RateLimitRedisError(r) ==
    /\ rpc[r] \in {"get", "setex", "incr"}
    /\ rpc' = [rpc EXCEPT ![r] = "call_next"]
    /\ UNCHANGED <<rate_limit, ttl, client_ip, current_calls, response>>
    /\ UNCHANGED queue_vars

(* return await call_next(request) *)
CallNext(r) ==
    /\ rpc[r] = "call_next"
    /\ rpc' = [rpc EXCEPT ![r] = "idle"]
    /\ response' = [response EXCEPT ![r] = 200]
    /\ UNCHANGED <<rate_limit, ttl, client_ip, current_calls>>
    /\ UNCHANGED queue_vars

(* one second passes: the store deletes the keys whose time has run out *)
Second ==
    /\ \E ip \in Clients : ttl[ip] > 0
    /\ ttl' = [ip \in Clients |-> IF ttl[ip] > 0 THEN ttl[ip] - 1 ELSE ttl[ip]]
    /\ rate_limit' = [ip \in Clients |-> IF ttl[ip] = 1 THEN 0
                                          ELSE rate_limit[ip]]
    /\ UNCHANGED <<rpc, client_ip, current_calls, response>>
    /\ UNCHANGED queue_vars

RequestStep(r) ==
    \/ Dispatch(r)
    \/ RateLimitGet(r)
    \/ RateLimitSetex(r)
    \/ RateLimitIncr(r)
    \/ RateLimitRedisError(r)
    \/ CallNext(r)

NextRateLimit ==
    \/ Second
    \/ \E r \in Requests : RequestStep(r)

SpecRateLimit == Init /\ [][NextRateLimit]_vars

(* C30: every rate_limit:{client_ip} key that exists in the store has an
   expiry of at most RateLimitPeriod seconds, whatever the interleaving of
   the requests and of the expiry of keys. *)
C30_CountersExpire ==
    \A ip \in Clients :
        rate_limit[ip] > 0 => ttl[ip] \in 1 .. RateLimitPeriod

====
